---- MODULE Spec2Model ----
(***************************************************************************)
(* Backtesting and strategy-evaluation engine of my-ai-trading-agent:      *)
(* HistoricalDataManager.preprocess_data, BacktestEngine.run_backtest,     *)
(* BacktestEngine._calculate_metrics, StrategyOptimizer.grid_search and    *)
(* MonteCarloSimulator.run_simulation.                                     *)
(*                                                                         *)
(* Python floats are modelled as exact rationals <<n, d>> (d > 0, lowest   *)
(* terms); <<1,0>>, <<-1,0>> and <<0,0>> stand for +inf, -inf and NaN.     *)
(***************************************************************************)
EXTENDS Integers, Sequences, FiniteSets, TLC

VARIABLES
    table,            \* the historical table the data manager loads (columns, rows)
    strategy,         \* the strategy instance passed to run_backtest
    initial_capital,  \* BacktestEngine.initial_capital
    commission,       \* BacktestEngine.commission
    results,          \* BacktestEngine.results: <<>> for {} or <<result>>
    pc,               \* position of run_backtest: idle, loop, done, error
    exc,              \* the exception run_backtest raised ("" when none)
    data,             \* local: the preprocessed data
    i,                \* local: number of bars processed so far
    capital,          \* local: cash
    position,         \* local: units held
    trades,           \* local: trade list
    equity_curve,     \* local: equity curve
    calls,            \* log of the windows passed to strategy.get_recommendation
    recs,             \* log of the actions get_recommendation returned
    opt,              \* StrategyOptimizer: best_params, best_score, results
    gs,               \* position and locals of grid_search
    runs,             \* ordinal of the run_backtest call in progress or about to start
    returned,         \* the dictionaries run_backtest has returned, in call order
    returned_args,    \* the arguments of the calls that returned them, in call order
    mc,               \* MonteCarloSimulator: simulation_results
    sim,              \* position and locals of run_simulation, the global numpy generator
    sr,               \* a strategy object's get_recommendation call: inputs and outcome
    pm                \* PositionManager: positions, history, daily_pl and the last call

vars == <<table, strategy, initial_capital, commission, results, pc, exc, data,
          i, capital, position, trades, equity_curve, calls, recs, opt, gs,
          runs, returned, returned_args, mc, sim, sr, pm>>

engineVars == <<table, strategy, initial_capital, commission, results, pc, exc,
                data, i, capital, position, trades, equity_curve, calls, recs,
                runs, returned, returned_args>>

simVars == <<mc, sim>>

auxVars == <<sr, pm>>

-----------------------------------------------------------------------------
(* Bounds *)

MaxBars == 4

MaxInvocations == 2

MaxRows == 3

-----------------------------------------------------------------------------
(* Exact rational arithmetic standing for float arithmetic *)

Abs(n) == IF n < 0 THEN -n ELSE n

RECURSIVE GCD(_, _)
GCD(a, b) == IF b = 0 THEN a ELSE GCD(b, a % b)

Norm(n, d) ==
    LET g == GCD(Abs(n), Abs(d))
        s == IF d < 0 THEN -1 ELSE 1
    IN  IF n = 0 THEN <<0, 1>> ELSE <<s * (n \div g), s * (d \div g)>>

Rat(n) == <<n, 1>>

Zero == <<0, 1>>

One == <<1, 1>>

NaN == <<0, 0>>

PosInf == <<1, 0>>

NegInf == <<-1, 0>>

IsFinite(a) == a[2] # 0

RAdd(a, b) ==
    LET g == GCD(a[2], b[2])
    IN  Norm(a[1] * (b[2] \div g) + b[1] * (a[2] \div g), (a[2] \div g) * b[2])

RNeg(a) == <<-a[1], a[2]>>

RSub(a, b) == RAdd(a, RNeg(b))

RMul(a, b) ==
    LET x == Norm(a[1], b[2])
        y == Norm(b[1], a[2])
    IN  Norm(x[1] * y[1], x[2] * y[2])

\* float division; a zero divisor yields inf or NaN as numpy does
RDiv(a, b) ==
    IF b[1] = 0
    THEN IF a[1] > 0 THEN PosInf ELSE IF a[1] < 0 THEN NegInf ELSE NaN
    ELSE RMul(a, Norm(b[2], b[1]))

RLt(a, b) ==
    IF a = NaN \/ b = NaN THEN FALSE
    ELSE IF ~IsFinite(a) \/ ~IsFinite(b)
         THEN (a = NegInf /\ b # NegInf) \/ (b = PosInf /\ a # PosInf)
         ELSE a[1] * b[2] < b[1] * a[2]

RGt(a, b) == RLt(b, a)

RLe(a, b) == a # NaN /\ b # NaN /\ ~RLt(b, a)

RAbs(a) == <<Abs(a[1]), a[2]>>

RECURSIVE RSum(_)
RSum(s) == IF s = <<>> THEN Zero ELSE RAdd(s[1], RSum(Tail(s)))

-----------------------------------------------------------------------------
(* Sequence helpers *)

Last(s) == s[Len(s)]

\* F applied to the value of x, with x evaluated once
Apply(F(_), x) == CHOOSE r \in {F(v) : v \in {x}} : TRUE

-----------------------------------------------------------------------------
(* HistoricalDataManager.preprocess_data *)

required_columns == {"open", "high", "low", "close", "volume"}

HasRequiredColumns(t) == required_columns \subseteq t.columns

RECURSIVE InsertSorted(_, _)
InsertSorted(r, s) ==
    IF s = <<>> THEN <<r>>
    ELSE IF r.ts < s[1].ts THEN <<r>> \o s
         ELSE <<s[1]>> \o InsertSorted(r, Tail(s))

RECURSIVE SortIndex(_)
\* data.sort_index(): ascending by timestamp, equal timestamps keep their order
SortIndex(rows) ==
    IF rows = <<>> THEN <<>>
    ELSE LET n == Len(rows)
         IN  InsertSorted(rows[n], SortIndex(SubSeq(rows, 1, n - 1)))

RECURSIVE DropDuplicated(_)
\* data[~data.index.duplicated(keep='first')], on sorted rows
DropDuplicated(rows) ==
    IF Len(rows) <= 1 THEN rows
    ELSE LET n == Len(rows)
             head == DropDuplicated(SubSeq(rows, 1, n - 1))
         IN  IF \E k \in 1..(n - 1) : rows[k].ts = rows[n].ts
             THEN head ELSE Append(head, rows[n])

RECURSIVE FFill(_)
\* data.fillna(method='ffill'): a missing close takes the previous row's value
FFill(rows) ==
    IF Len(rows) <= 1 THEN rows
    ELSE LET n == Len(rows)
             head == FFill(SubSeq(rows, 1, n - 1))
         IN  IF rows[n].close = NaN
             THEN Append(head, [rows[n] EXCEPT !.close = head[n - 1].close])
             ELSE Append(head, rows[n])

\* Series.pct_change(): x[k] / x[k-1] - 1, NaN for the first element
PctChange(xs) ==
    [k \in 1..Len(xs) |->
        IF k = 1 \/ xs[k] = NaN \/ xs[k - 1] = NaN THEN NaN
        ELSE LET q == RDiv(xs[k], xs[k - 1])
             IN  IF IsFinite(q) THEN RSub(q, One) ELSE q]

\* the columns added by preprocess_data; log_returns holds the argument
\* close / close.shift(1) of np.log
AddReturns(rows) ==
    LET closes == [k \in 1..Len(rows) |-> rows[k].close]
        rets == PctChange(closes)
    IN  [k \in 1..Len(rows) |->
            [ts |-> rows[k].ts, close |-> rows[k].close, returns |-> rets[k],
             log_returns |-> IF k = 1 \/ rows[k].close = NaN \/ rows[k - 1].close = NaN
                             THEN NaN ELSE RDiv(rows[k].close, rows[k - 1].close)]]

preprocess_data(t) == AddReturns(FFill(DropDuplicated(SortIndex(t.rows))))

-----------------------------------------------------------------------------
(* MovingAverageStrategy: analyze, generate_signals and get_recommendation *)

\* base_strategy.py lines 70-71
validate_data(w) == required_columns \subseteq w.columns

\* moving_average_strategy.py line 61: the ATR is a 14-bar rolling mean
AtrPeriod == 14

Signal(ts, type, confidence) == [timestamp |-> ts, type |-> type, confidence |-> confidence]

\* the answer of every strategy that found no signal to act on
HoldRecommendation == [action |-> "hold", confidence |-> <<1, 2>>]

SignalRecommendation(signal) == [action |-> signal.type, confidence |-> signal.confidence]

Returned(ret) == [exc |-> "", ret |-> <<ret>>]

Raised(e) == [exc |-> e, ret |-> <<>>]

\* moving_average_strategy.py lines 166-206; generate_signals (lines 76-77)
\* returns [] for a frame that fails validate_data
MovingAverage_get_recommendation(w) ==
    LET signals == IF validate_data(w) THEN w.signals ELSE <<>>
    IN  IF signals = <<>> THEN Returned(HoldRecommendation)
        ELSE IF Last(signals).timestamp >= w.n - 1
             THEN Returned(SignalRecommendation(Last(signals)))
             ELSE Returned(HoldRecommendation)

\* __init__ lines 12-22: fast_period 20 and slow_period 50 unless overridden
MovingAverageStrategy(fast_period, slow_period) ==
    [name |-> "moving_average", script |-> <<>>, lo |-> Zero, hi |-> Zero,
     fast_period |-> fast_period, slow_period |-> slow_period]

\* result['close'].rolling(window=period).mean() at bar k: NaN until the window
\* is full or while it holds a missing close
SMA(rows, period, k) ==
    IF k < period \/ \E j \in (k - period + 1)..k : rows[j].close = NaN THEN NaN
    ELSE RDiv(RSum([j \in 1..period |-> rows[k - period + j].close]), Rat(period))

\* line 61: true_range.rolling(window=14).mean() is NaN before the 14th bar
\* (high and low carry no gaps)
AtrIsNaN(rows, k) == k < AtrPeriod

FastMaAboveOrEqual(fast, slow) == RLe(slow, fast)

\* line 64: result[fast_ma_col] > result[slow_ma_col]
FastMaAbove(fast, slow) == RGt(fast, slow)

\* lines 64-75 for bar k: the indicator row generate_signals reads
Analysis(s, rows, k) ==
    LET fast == SMA(rows, s.fast_period, k)
        slow == SMA(rows, s.slow_period, k)
        above == FastMaAbove(fast, slow)
        before == IF k = 1 THEN FALSE
                  ELSE FastMaAbove(SMA(rows, s.fast_period, k - 1),
                                   SMA(rows, s.slow_period, k - 1))
        close == rows[k].close
    IN  [fast_ma_above |-> above,
         crossover |-> (k = 1) \/ (above # before),
         price_vs_fast_ma |-> IF close = NaN \/ fast = NaN THEN NaN ELSE RSub(close, fast),
         price_vs_slow_ma_pct |-> IF close = NaN \/ slow = NaN THEN NaN
                                  ELSE RDiv(RSub(close, slow), close)]

\* lines 105-162: the signal the loop appends for bar k, if any
SignalAt(s, rows, k) ==
    IF AtrIsNaN(rows, k) THEN <<>>
    ELSE CHOOSE signal \in
            {IF a.crossover /\ a.fast_ma_above THEN <<Signal(rows[k].ts, "buy", <<4, 5>>)>>
             ELSE IF a.crossover /\ ~a.fast_ma_above
             THEN <<Signal(rows[k].ts, "sell", <<4, 5>>)>>
             ELSE IF /\ a.fast_ma_above
                     /\ RGt(a.price_vs_fast_ma, Zero)
                     /\ RGt(a.price_vs_slow_ma_pct, <<1, 50>>)
             THEN <<Signal(rows[k].ts, "buy", <<3, 5>>)>>
             ELSE IF /\ ~a.fast_ma_above
                     /\ RLt(a.price_vs_fast_ma, Zero)
                     /\ RLt(a.price_vs_slow_ma_pct, <<-1, 50>>)
             THEN <<Signal(rows[k].ts, "sell", <<3, 5>>)>>
             ELSE <<>> : a \in {Analysis(s, rows, k)}} : TRUE

RECURSIVE SignalsUpTo(_, _, _)
\* the signals of `for i in range(1, len(result))` up to bar n (bars count from 1)
SignalsUpTo(s, rows, n) ==
    IF n <= 1 THEN <<>> ELSE SignalsUpTo(s, rows, n - 1) \o SignalAt(s, rows, n)

\* lines 76-162 on a frame with the required columns
generate_signals(s, rows) == SignalsUpTo(s, rows, Len(rows))

\* the frame the engine passes: preprocessed rows, whose columns were checked
\* and whose index is ascending, so that timestamps compare like positions
Frame(s, rows) ==
    CHOOSE frame \in
        {[columns |-> required_columns, n |-> Len(rows),
          signals |-> [k \in 1..Len(sigs) |->
                         [sigs[k] EXCEPT
                             !.timestamp = CHOOSE j \in 1..Len(rows) : rows[j].ts = @]]] :
            sigs \in {generate_signals(s, rows)}} : TRUE

-----------------------------------------------------------------------------
(* Strategy contract: get_recommendation is a function of the window passed *)

Actions == {"hold", "buy", "sell"}

ScriptedStrategy(script) ==
    [name |-> "scripted", script |-> script, lo |-> Zero, hi |-> Zero,
     fast_period |-> 0, slow_period |-> 0]

ThresholdStrategy(lo, hi) ==
    [name |-> "threshold", script |-> <<>>, lo |-> lo, hi |-> hi,
     fast_period |-> 0, slow_period |-> 0]

\* scripted: the action scripted for the window's last bar (hold beyond the
\* script); threshold: buy at or below lo, sell at or above hi, on the last close
get_recommendation(s, window) ==
    IF s.name = "scripted"
    THEN IF Len(window) \in 1..Len(s.script) THEN s.script[Len(window)] ELSE "hold"
    ELSE IF s.name = "moving_average"
    THEN MovingAverage_get_recommendation(Frame(s, window)).ret[1].action
    ELSE IF window = <<>> THEN "hold"
         ELSE IF RLe(Last(window).close, s.lo) THEN "buy"
              ELSE IF RLe(s.hi, Last(window).close) THEN "sell" ELSE "hold"

\* the exception of a strategy whose get_recommendation raises
StrategyError == "StrategyError"

\* get_recommendation raises for this window: the scripted strategy where its
\* script says so, the threshold strategy whenever its band is inverted
StrategyRaises(s, window) ==
    IF s.name = "scripted"
    THEN Len(window) \in 1..Len(s.script) /\ s.script[Len(window)] = "raise"
    ELSE s.name = "threshold" /\ RLt(s.hi, s.lo)

-----------------------------------------------------------------------------
(* BacktestEngine.run_backtest: one iteration of the bar loop *)

DefaultInitialCapital == 10000

CurrentDataLookahead(d, k) == SubSeq(d, 1, IF k < Len(d) THEN k + 1 ELSE k)

\* current_data = data.iloc[:i+1], for the k-th bar (k = i + 1)
CurrentData(d, k) == SubSeq(d, 1, k)

CanBuyAlways(action, pos) == action = "buy"

\* recommendation['action'] == 'buy' and position <= 0
CanBuy(action, pos) == action = "buy" /\ RLe(pos, Zero)

\* recommendation['action'] == 'sell' and position > 0
CanSell(action, pos) == action = "sell" /\ RGt(pos, Zero)

\* position_size = capital / price
PositionSize(cap, price, comm) == RDiv(cap, price)

BuyCostNoFee(size, price, comm) == RMul(size, price)

\* position_size * price * (1 + self.commission)
BuyCost(size, price, comm) == RMul(RMul(size, price), RAdd(One, comm))

SellProceedsNoFee(pos, price, comm) == RMul(pos, price)

\* position * price * (1 - self.commission)
SellProceeds(pos, price, comm) == RMul(RMul(pos, price), RSub(One, comm))

\* capital + (position * data['close'].iloc[i] if position > 0 else 0)
CurrentEquity(cap, pos, close) ==
    RAdd(cap, IF RGt(pos, Zero) THEN RMul(pos, close) ELSE Zero)

Trade(ts, type, price, size, cap) ==
    [timestamp |-> ts, type |-> type, price |-> price, size |-> size, capital |-> cap]

\* the state of the loop before its first iteration
LoopStart(cap) ==
    [capital |-> cap, position |-> Zero, trades |-> <<>>, equity_curve |-> <<>>,
     calls |-> <<>>, recs |-> <<>>]

\* the body of `for i in range(len(data))` for the k-th bar of d
ExecuteBar(s, d, k, strat, comm) ==
    LET window == CurrentData(d, k)
        action == get_recommendation(strat, window)
        price  == d[k].close
        traded ==
            IF action = "hold" THEN s
            ELSE IF CanBuy(action, s.position)
            THEN LET size == PositionSize(s.capital, price, comm)
                     cap  == RSub(s.capital, BuyCost(size, price, comm))
                 IN  [s EXCEPT !.position = size, !.capital = cap,
                               !.trades = Append(@, Trade(d[k].ts, "buy", price, size, cap))]
            ELSE IF CanSell(action, s.position)
            THEN LET cap == RAdd(s.capital, SellProceeds(s.position, price, comm))
                 IN  [s EXCEPT !.position = Zero, !.capital = cap,
                               !.trades = Append(@, Trade(d[k].ts, "sell", price, s.position, cap))]
            ELSE s
    IN  [traded EXCEPT
            !.equity_curve = Append(@, CurrentEquity(traded.capital, traded.position, price)),
            !.calls = Append(@, window),
            !.recs = Append(@, action)]

RECURSIVE RunLoop(_, _, _, _, _)
\* the loop state after the first n bars of d
RunLoop(d, strat, cap, comm, n) ==
    IF n = 0 THEN LoopStart(cap)
    ELSE Apply(LAMBDA prev : ExecuteBar(prev, d, n, strat, comm),
               RunLoop(d, strat, cap, comm, n - 1))

-----------------------------------------------------------------------------
(* BacktestEngine._calculate_metrics *)

\* a metric value: a number, +inf, or a function of the returns series that
\* has no rational value (square roots, standard deviations)
Num(r) == [kind |-> "num", val |-> r, fn |-> "", arg |-> <<>>]

Inf == [kind |-> "inf", val |-> Zero, fn |-> "", arg |-> <<>>]

Fn(f, xs) == [kind |-> "fn", val |-> Zero, fn |-> f, arg |-> xs]

MetricNames ==
    {"sharpe_ratio", "sortino_ratio", "max_drawdown", "win_rate", "profit_factor", "avg_trade"}

ZeroMetrics == [m \in MetricNames |-> Num(Zero)]

\* equity_series.pct_change().dropna()
Returns(equity) ==
    LET pc_ == PctChange(equity)
        NotNaN(x) == x # NaN
    IN  SelectSeq(pc_, NotNaN)

\* trades.index(t): the first position holding a trade equal to t
TradeIndex(ts, t) == CHOOSE k \in 1..Len(ts) : ts[k] = t /\ \A j \in 1..(k - 1) : ts[j] # t

\* trades[trades.index(t)-1]['capital'] (index -1 is the last trade)
PrevCapital(ts, t) ==
    LET k == TradeIndex(ts, t)
    IN  IF k = 1 THEN ts[Len(ts)].capital ELSE ts[k - 1].capital

\* t['type'] == 'sell' and t['capital'] > trades[trades.index(t)-1]['capital']
IsWinning(ts, t) == t.type = "sell" /\ RGt(t.capital, PrevCapital(ts, t))

\* t['type'] == 'sell' and t['capital'] <= trades[trades.index(t)-1]['capital']
IsLosing(ts, t) == t.type = "sell" /\ RLe(t.capital, PrevCapital(ts, t))

SellTrades(ts) == LET IsSell(t) == t.type = "sell" IN SelectSeq(ts, IsSell)

WinningTrades(ts) == LET W(t) == IsWinning(ts, t) IN SelectSeq(ts, W)

LosingTrades(ts) == LET L(t) == IsLosing(ts, t) IN SelectSeq(ts, L)

Deltas(ts, sel) == [k \in 1..Len(sel) |-> RSub(sel[k].capital, PrevCapital(ts, sel[k]))]

TooFewTradesBelowOne(ts) == Len(ts) < 1

\* len(trades) < 2
TooFewTrades(ts) == Len(ts) < 2

\* the division by the number of sell trades raises ZeroDivisionError
MetricsRaise(ts) == ~TooFewTrades(ts) /\ Len(SellTrades(ts)) = 0

calculate_metrics(returns, ts) ==
    IF TooFewTrades(ts) THEN ZeroMetrics
    ELSE LET Neg(x) == RLt(x, Zero)
             downside_returns == SelectSeq(returns, Neg)
             nsell == Rat(Len(SellTrades(ts)))
             total_profit == RSum(Deltas(ts, WinningTrades(ts)))
             total_loss == RAbs(RSum(Deltas(ts, LosingTrades(ts))))
         IN  [sharpe_ratio  |-> Fn("sharpe_ratio", returns),
              sortino_ratio |-> IF Len(downside_returns) > 0
                                THEN Fn("sortino_ratio", returns) ELSE Num(Zero),
              max_drawdown  |-> Fn("max_drawdown", returns),
              win_rate      |-> Num(RDiv(Rat(Len(WinningTrades(ts))), nsell)),
              profit_factor |-> IF RGt(total_loss, Zero)
                                THEN Num(RDiv(total_profit, total_loss)) ELSE Inf,
              avg_trade     |-> Num(RDiv(RSub(total_profit, total_loss), nsell))]

TotalReturnOfInitial(final, initial) == RDiv(final, initial)

\* (equity_curve[-1] / self.initial_capital) - 1
TotalReturn(final, initial) == RSub(RDiv(final, initial), One)

\* the dictionary stored in self.results and returned
BuildResults(strat, initial, s) ==
    [strategy        |-> strat.name,
     initial_capital |-> initial,
     final_capital   |-> Last(s.equity_curve),
     total_return    |-> TotalReturn(Last(s.equity_curve), initial),
     trades          |-> s.trades,
     equity_curve    |-> s.equity_curve,
     returns         |-> Returns(s.equity_curve),
     metrics         |-> calculate_metrics(Returns(s.equity_curve), s.trades)]

\* the code after the loop, for the loop's final state s
AfterLoop(strat, initial, s) ==
    IF Len(s.equity_curve) = 0 THEN [exc |-> "IndexError", result |-> <<>>]
    ELSE IF MetricsRaise(s.trades) THEN [exc |-> "ZeroDivisionError", result |-> <<>>]
         ELSE [exc |-> "", result |-> <<BuildResults(strat, initial, s)>>]

\* some call strategy.get_recommendation(current_data) of the loop raises
LoopRaises(d, strat) == \E k \in 1..Len(d) : StrategyRaises(strat, CurrentData(d, k))

\* the outcome of a whole run_backtest call: the exception raised or the result
run_backtest(t, strat, initial, comm) ==
    IF ~HasRequiredColumns(t) THEN [exc |-> "ValueError", result |-> <<>>]
    ELSE Apply(LAMBDA d :
                   IF LoopRaises(d, strat) THEN [exc |-> StrategyError, result |-> <<>>]
                   ELSE Apply(LAMBDA s : AfterLoop(strat, initial, s),
                              RunLoop(d, strat, initial, comm, Len(d))),
               preprocess_data(t))

StoredResultsAlways(r, old) == r.result

\* self.results = {...}: assigned once the whole dictionary has been built
StoredResults(r, old) == IF r.exc = "" THEN r.result ELSE old

ReturnedShared(old, result) == [n \in 1..(Len(old) + 1) |-> result]

\* return self.results: a dictionary and lists created by this call
ReturnedAfter(old, result) == Append(old, result)

-----------------------------------------------------------------------------
(* run_backtest as steps *)

LoopState ==
    [capital |-> capital, position |-> position, trades |-> trades,
     equity_curve |-> equity_curve, calls |-> calls, recs |-> recs]

\* the cached frame had preprocess_data sorted, filled and extended it in place
CachedTableInPlace(t) ==
    [columns |-> t.columns \cup {"returns", "log_returns"}, rows |-> preprocess_data(t)]

\* historical_data_manager.py lines 53-54 and 120-129: load_data hands out the
\* cached frame itself, sort_index returns a new frame and every later step
\* works on that one, so the cached frame stays as it was loaded
CachedTable(t) == t

\* load_data, preprocess_data and the initialisation of the locals
StartBacktest ==
    /\ pc = "idle"
    /\ IF HasRequiredColumns(table)
       THEN /\ data' = preprocess_data(table)
            /\ table' = CachedTable(table)
            /\ pc' = "loop"
            /\ exc' = ""
       ELSE /\ data' = data
            /\ table' = table
            /\ pc' = "error"
            /\ exc' = "ValueError"
    /\ i' = 0
    /\ capital' = initial_capital
    /\ position' = Zero
    /\ trades' = <<>>
    /\ equity_curve' = <<>>
    /\ calls' = <<>>
    /\ recs' = <<>>
    /\ UNCHANGED <<strategy, initial_capital, commission, results, opt, gs,
                   runs, returned, returned_args, simVars, auxVars>>

\* one iteration of the bar loop; an exception of the strategy ends the call
BarStep ==
    /\ pc = "loop"
    /\ i < Len(data)
    /\ IF StrategyRaises(strategy, CurrentData(data, i + 1))
       THEN /\ pc' = "error"
            /\ exc' = StrategyError
            /\ calls' = Append(calls, CurrentData(data, i + 1))
            /\ UNCHANGED <<i, capital, position, trades, equity_curve, recs>>
       ELSE /\ LET s == ExecuteBar(LoopState, data, i + 1, strategy, commission)
               IN  /\ capital' = s.capital
                   /\ position' = s.position
                   /\ trades' = s.trades
                   /\ equity_curve' = s.equity_curve
                   /\ calls' = s.calls
                   /\ recs' = s.recs
            /\ i' = i + 1
            /\ UNCHANGED <<pc, exc>>
    /\ UNCHANGED <<table, strategy, initial_capital, commission, results, data,
                   opt, gs, runs, returned, returned_args, simVars, auxVars>>

\* the code after the loop: returns, metrics, self.results
FinishBacktest ==
    /\ pc = "loop"
    /\ i = Len(data)
    /\ LET r == AfterLoop(strategy, initial_capital, LoopState)
       IN  /\ exc' = r.exc
           /\ pc' = IF r.exc = "" THEN "done" ELSE "error"
           /\ results' = StoredResults(r, results)
           /\ returned' = IF r.exc = "" THEN ReturnedAfter(returned, r.result[1])
                          ELSE returned
           /\ returned_args' =
                  IF r.exc = ""
                  THEN Append(returned_args,
                              [table |-> table, strategy |-> strategy,
                               initial_capital |-> initial_capital,
                               commission |-> commission])
                  ELSE returned_args
    /\ UNCHANGED <<table, strategy, initial_capital, commission, data, i, capital,
                   position, trades, equity_curve, calls, recs, opt, gs, runs, simVars, auxVars>>

-----------------------------------------------------------------------------
(* Inputs *)

AllColumns == {"open", "high", "low", "close", "volume"}

Prices == {Rat(100), Rat(110)}

Commissions == {Zero, <<1, 100>>, <<1, 2>>}

\* tables as the provider promises them: ascending unique timestamps, no gaps
CleanTables ==
    UNION {{[columns |-> AllColumns,
             rows |-> [k \in 1..n |-> [ts |-> k, close |-> c[k]]]] :
                c \in [1..n -> Prices]} : n \in 0..MaxBars}

Scripts(n) == {ScriptedStrategy(sc) : sc \in [1..n -> Actions]}

\* StrategyOptimizer.__init__: best_params = None, best_score = -inf, results = []
OptIdle == [best_params |-> <<>>, best_score |-> NegInf, results |-> <<>>,
            objective_function |-> "avg_trade"]

\* no grid_search call in progress
GsIdle == [pc |-> "idle", invocation |-> 0, param_grid |-> [lo |-> <<>>, hi |-> <<>>],
           param_combinations |-> <<>>, futures |-> <<>>, collected |-> 0,
           exc |-> "", returned |-> <<>>]

\* MonteCarloSimulator.__init__: simulation_results = []
McIdle == [simulation_results |-> <<>>]

\* no run_simulation call in progress; the generator as the process starts it
SimIdle == [pc |-> "idle", invocation |-> 0, random_seed |-> <<>>, n_simulations |-> 0,
           generator |-> <<>>, data |-> <<>>, trial |-> 0, random_returns |-> <<>>,
           simulated_prices |-> <<>>, equity_curves |-> <<>>, metrics |-> <<>>,
           exc |-> "", outcomes |-> <<>>]

\* no get_recommendation call on a strategy object in progress
SrIdle == [pc |-> "idle", kind |-> "", window |-> <<>>, ret |-> <<>>, exc |-> ""]

\* position_manager.py lines 21-24 with no positions file: PositionManager.__init__
Pairs == {"EUR/USD", "USD/JPY"}

\* clock counts the datetime.now() readings, opened lists the entry_time of every
\* position that has been stored in positions, n counts the calls made, call and
\* ret are the last call and what it returned (<<>> for None)
PmIdle == [positions |-> [p \in Pairs |-> <<>>], history |-> <<>>, daily_pl |-> Zero,
           clock |-> 0, opened |-> <<>>, n |-> 0, call |-> <<>>, ret |-> <<>>]

EngineIdle ==
    /\ results = <<>>
    /\ pc = "idle"
    /\ exc = ""
    /\ data = <<>>
    /\ i = 0
    /\ capital = Zero
    /\ position = Zero
    /\ trades = <<>>
    /\ equity_curve = <<>>
    /\ calls = <<>>
    /\ recs = <<>>
    /\ runs = 1
    /\ returned = <<>>
    /\ returned_args = <<>>

Init ==
    /\ table \in CleanTables \cup {[columns |-> AllColumns \ {"volume"}, rows |-> <<>>]}
    /\ strategy \in Scripts(Len(table.rows))
    /\ initial_capital = Rat(DefaultInitialCapital)
    /\ commission \in Commissions
    /\ EngineIdle
    /\ opt = OptIdle
    /\ gs = GsIdle
    /\ mc = McIdle
    /\ sim = SimIdle
    /\ sr = SrIdle
    /\ pm = PmIdle

Next == StartBacktest \/ BarStep \/ FinishBacktest

Spec == Init /\ [][Next]_vars

-----------------------------------------------------------------------------
(* Properties of the bar loop *)

\* a step of the bar loop that processes bar i' with recommendation a
BarProcessed(a) == pc = "loop" /\ i' = i + 1 /\ recs' = Append(recs, a)

\* C2: a buy received while FLAT (position = 0) with cash C at close p moves
\* the engine to LONG: position becomes C / p > 0, capital drops by
\* (C / p) * p * (1 + commission), and exactly one buy Trade is appended with
\* the bar's timestamp, price p, size C / p and the resulting capital.
C2_BuyWhileFlatGoesLong ==
    [][ (BarProcessed("buy") /\ position = Zero) =>
          LET p == data[i'].close
              size == RDiv(capital, p)
          IN  /\ position' = size
              /\ RGt(position', Zero)
              /\ capital' = RSub(capital, RMul(RMul(size, p), RAdd(One, commission)))
              /\ trades' = Append(trades,
                     [timestamp |-> data[i'].ts, type |-> "buy", price |-> p,
                      size |-> size, capital |-> capital']) ]_vars

\* C3: a sell received while LONG (position = s > 0) at close p moves the
\* engine to FLAT: capital grows by s * p * (1 - commission), position is
\* reset to 0 and exactly one sell Trade is appended with the bar's timestamp,
\* price p, size s and the resulting capital.
C3_SellWhileLongGoesFlat ==
    [][ (BarProcessed("sell") /\ RGt(position, Zero)) =>
          LET p == data[i'].close
          IN  /\ capital' = RAdd(capital, RMul(RMul(position, p), RSub(One, commission)))
              /\ position' = Zero
              /\ trades' = Append(trades,
                     [timestamp |-> data[i'].ts, type |-> "sell", price |-> p,
                      size |-> position, capital |-> capital']) ]_vars

\* a sell has just been executed at the bar processed last
C3_Witness ==
    /\ pc = "loop" /\ i >= 2 /\ recs[i] = "sell"
    /\ trades # <<>> /\ Last(trades).type = "sell" /\ Last(trades).timestamp = data[i].ts
    /\ commission # Zero

\* C4: a bar whose recommendation is hold, or buy while LONG, or sell while
\* FLAT leaves capital, position and the trade list unchanged; only the equity
\* curve grows, by one entry.
C4_NoTransitionNoTrade ==
    [][ (\/ BarProcessed("hold")
         \/ BarProcessed("buy") /\ RGt(position, Zero)
         \/ BarProcessed("sell") /\ position = Zero) =>
          /\ capital' = capital
          /\ position' = position
          /\ trades' = trades
          /\ Len(equity_curve') = Len(equity_curve) + 1
          /\ SubSeq(equity_curve', 1, Len(equity_curve)) = equity_curve ]_vars

\* one run has seen a sell while FLAT, a buy while LONG and a hold
C4_Witness ==
    /\ pc = "loop" /\ i = 4
    /\ recs = <<"sell", "buy", "buy", "hold">>
    /\ Len(trades) = 1 /\ Len(equity_curve) = 4

\* C5: after every bar exactly one value is appended to the equity curve, equal
\* to the post-trade capital plus position * close[i] (just capital when flat);
\* the curve has one entry per bar, final_capital is its last entry and
\* final_capital = initial_capital * (1 + total_return).
C5_EquityConservation ==
    /\ pc \in {"loop", "done"} => Len(equity_curve) = i
    /\ (pc \in {"loop", "done"} /\ i > 0) =>
          equity_curve[i] = IF position = Zero THEN capital
                            ELSE RAdd(capital, RMul(position, data[i].close))
    /\ pc = "done" =>
          /\ Len(results[1].equity_curve) = Len(data)
          /\ results[1].final_capital = Last(results[1].equity_curve)
          /\ results[1].final_capital =
                RMul(initial_capital, RAdd(One, results[1].total_return))

\* C8: a run that executes 0 or 1 trades has all six metrics exactly 0, and
\* ends normally (over at least one bar it does not raise).
C8_DegenerateMetricsAreZero ==
    /\ (pc = "done" /\ Len(results[1].trades) < 2) =>
          \A m \in MetricNames : results[1].metrics[m] = Num(Zero)
    /\ (pc = "error" /\ Len(trades) < 2) => (exc = "ValueError" \/ Len(data) = 0)

\* a finished run with exactly one trade whose equity moved afterwards
C8_Witness ==
    /\ pc = "done" /\ Len(results[1].trades) = 1
    /\ \E k \in 1..Len(results[1].returns) : results[1].returns[k] # Zero

\* the capital held just before the buy matched by the sell at position k
CapitalBeforeMatchingBuy(ts, k) == IF k = 2 THEN initial_capital ELSE ts[k - 2].capital

\* the closing trades whose round trip increased the account's capital
ProfitableSells(ts) ==
    {k \in 2..Len(ts) : ts[k].type = "sell" /\ RGt(ts[k].capital, CapitalBeforeMatchingBuy(ts, k))}

UnprofitableSells(ts) ==
    {k \in 2..Len(ts) : ts[k].type = "sell" /\ ~RGt(ts[k].capital, CapitalBeforeMatchingBuy(ts, k))}

\* C9: with at least 2 trades, win_rate = (sells whose capital exceeds the
\* capital held just before the matching buy) / (sells), and a round trip
\* closed at a loss is a losing trade that enters profit_factor's denominator.
C9_WinRateCountsProfitableRoundTrips ==
    (pc = "done" /\ Len(results[1].trades) >= 2) =>
        LET ts == results[1].trades
        IN  /\ results[1].metrics.win_rate =
                 Num(RDiv(Rat(Cardinality(ProfitableSells(ts))), Rat(Len(SellTrades(ts)))))
            /\ (\E k \in UnprofitableSells(ts) :
                    RLt(ts[k].capital, CapitalBeforeMatchingBuy(ts, k)))
                 => results[1].metrics.profit_factor # Inf

-----------------------------------------------------------------------------
(* The single round trip: buy at bar 10 (price 100), sell at bar 20 (price 110) *)

\* n bars at the filler price, bar 10 at 100 and bar 20 at 110 (bars count from 0)
RoundTripTable(n, filler) ==
    [columns |-> AllColumns,
     rows |-> [k \in 1..n |->
                 [ts |-> k,
                  close |-> IF k = 11 THEN Rat(100) ELSE IF k = 21 THEN Rat(110) ELSE filler]]]

\* the strategy forced to emit buy at bar 10 and sell at bar 20
RoundTripStrategy(n) ==
    ScriptedStrategy([k \in 1..n |-> IF k = 11 THEN "buy" ELSE IF k = 21 THEN "sell" ELSE "hold"])

InitRoundTrip ==
    /\ \/ /\ table \in CleanTables
          /\ strategy \in Scripts(Len(table.rows))
       \/ \E n \in {21, 22}, filler \in {Rat(100), Rat(105), Rat(110)} :
             /\ table = RoundTripTable(n, filler)
             /\ strategy = RoundTripStrategy(n)
    /\ initial_capital = Rat(DefaultInitialCapital)
    /\ commission \in {Zero, <<1, 100>>}
    /\ EngineIdle
    /\ opt = OptIdle
    /\ gs = GsIdle
    /\ mc = McIdle
    /\ sim = SimIdle
    /\ sr = SrIdle
    /\ pm = PmIdle

SpecRoundTrip == InitRoundTrip /\ [][Next]_vars

\* the recommendations of the run are one buy at bar b and one later sell at
\* bar s, apart from those the engine does not execute
OnlyBuyThenSell(b, s) ==
    /\ b < s /\ recs[b] = "buy" /\ recs[s] = "sell"
    /\ \A k \in 1..Len(recs) :
          /\ (k < b) => recs[k] # "buy"
          /\ (b < k /\ k < s) => recs[k] # "sell"
          /\ (k > s) => recs[k] # "buy"

\* the run is the scenario of the specification
IsRoundTripScenario ==
    /\ pc = "done" /\ Len(data) >= 21
    /\ data[11].close = Rat(100) /\ data[21].close = Rat(110)
    /\ OnlyBuyThenSell(11, 21)
    /\ initial_capital = Rat(10000)

\* C6: with commission 0 and initial capital C, a run whose only executed
\* recommendations are a buy at close p1 and a later sell at close p2 records
\* exactly two trades of size C / p1 and ends with final capital C * p2 / p1;
\* in the scenario the trades are (buy, 100, 100 units), (sell, 110, 100
\* units), final capital is 11,000 and total_return is 0.10.
C6_ProfitableRoundTrip ==
    /\ (pc = "done" /\ commission = Zero) =>
          \A b, s \in 1..Len(recs) : OnlyBuyThenSell(b, s) =>
              LET ts == results[1].trades
                  p1 == data[b].close
                  p2 == data[s].close
              IN  /\ Len(ts) = 2
                  /\ ts[1].type = "buy" /\ ts[1].price = p1 /\ ts[1].timestamp = data[b].ts
                  /\ ts[2].type = "sell" /\ ts[2].price = p2 /\ ts[2].timestamp = data[s].ts
                  /\ ts[1].size = RDiv(initial_capital, p1)
                  /\ ts[2].size = RDiv(initial_capital, p1)
                  /\ results[1].final_capital = RDiv(RMul(initial_capital, p2), p1)
    /\ (IsRoundTripScenario /\ commission = Zero) =>
          /\ [k \in 1..2 |-> <<results[1].trades[k].type, results[1].trades[k].price,
                               results[1].trades[k].size>>]
               = << <<"buy", Rat(100), Rat(100)>>, <<"sell", Rat(110), Rat(100)>> >>
          /\ Len(results[1].trades) = 2
          /\ results[1].final_capital = Rat(11000)
          /\ results[1].total_return = <<1, 10>>

C6_Witness == IsRoundTripScenario /\ commission = Zero /\ Len(results[1].trades) = 2

\* the fee is charged on the buy cost (+1%) and on the sell proceeds (-1%)
FeeChargedAtEntryAndExit ==
    LET ts == results[1].trades
    IN  /\ Len(ts) = 2
        /\ ts[1].capital = RSub(Rat(10000), RMul(Rat(10000), <<101, 100>>))
        /\ ts[2].capital = RAdd(ts[1].capital, RMul(Rat(11000), <<99, 100>>))
        /\ results[1].final_capital = ts[2].capital

\* C7 as stated: in the round trip with commission 0.01 the fee is charged
\* separately at entry and exit and the final capital is 10,791 to the unit.
C7_CommissionDragAsStated ==
    (IsRoundTripScenario /\ commission = <<1, 100>>) =>
        /\ FeeChargedAtEntryAndExit
        /\ RLe(<<21581, 2>>, results[1].final_capital)
        /\ RLt(results[1].final_capital, <<21583, 2>>)

\* C7 amended: in the round trip with commission 0.01 the fee is charged
\* separately at entry and exit and the final capital is exactly 10,790
\* (-100 left after the buy, plus 100 * 110 * 0.99 = 10,890 from the sell).
C7_CommissionDrag ==
    (IsRoundTripScenario /\ commission = <<1, 100>>) =>
        /\ FeeChargedAtEntryAndExit
        /\ results[1].final_capital = Rat(10790)

C7_Witness == IsRoundTripScenario /\ commission = <<1, 100>> /\ Len(results[1].trades) = 2

-----------------------------------------------------------------------------
(* No lookahead: tables as a file may hold them (unsorted, duplicate
   timestamps, missing closes), run through preprocess_data *)

Timestamps == 1..3

RawRows == [ts : Timestamps, close : Prices \cup {NaN}]

\* the earliest bar has a close (a leading gap has nothing to be filled from)
MessyTables ==
    UNION {{[columns |-> AllColumns, rows |-> r] :
              r \in {q \in [1..n -> RawRows] :
                        n > 0 => DropDuplicated(SortIndex(q))[1].close # NaN}} :
           n \in 0..MaxRows}

InitLookahead ==
    /\ table \in MessyTables
    /\ strategy \in {ThresholdStrategy(Rat(100), Rat(110)),
                     ScriptedStrategy([k \in 1..Len(table.rows) |->
                                          IF k % 2 = 1 THEN "buy" ELSE "sell"])}
    /\ initial_capital = Rat(DefaultInitialCapital)
    /\ commission \in {Zero, <<1, 100>>}
    /\ EngineIdle
    /\ opt = OptIdle
    /\ gs = GsIdle
    /\ mc = McIdle
    /\ sim = SimIdle
    /\ sr = SrIdle
    /\ pm = PmIdle

SpecLookahead == InitLookahead /\ [][Next]_vars

\* the table without the rows after timestamp t
TruncateAfter(t, stamp) ==
    LET Keep(r) == r.ts <= stamp IN [t EXCEPT !.rows = SelectSeq(t.rows, Keep)]

\* the trades made up to timestamp t
TradesUpTo(ts, stamp) == LET Keep(t) == t.timestamp <= stamp IN SelectSeq(ts, Keep)

\* C1: get_recommendation is called exactly once per bar in ascending order,
\* the data passed at bar j is exactly bars 0..j, and the recommendations,
\* trades and equity values up to bar j are those of the run repeated on the
\* series truncated after bar j.
C1_NoLookahead ==
    pc \in {"loop", "done"} =>
        /\ Len(calls) = i /\ Len(recs) = i
        /\ \A j \in 1..i :
              /\ calls[j] = SubSeq(data, 1, j)
              /\ LET d == preprocess_data(TruncateAfter(table, data[j].ts))
                     r == RunLoop(d, strategy, initial_capital, commission, Len(d))
                 IN  /\ Len(d) = j
                     /\ r.recs = SubSeq(recs, 1, j)
                     /\ r.equity_curve = SubSeq(equity_curve, 1, j)
                     /\ r.trades = TradesUpTo(trades, data[j].ts)

\* a bar in the middle of a series read from an unsorted table with a gap,
\* after a trade
C1_Witness ==
    /\ pc = "loop" /\ i = 2 /\ Len(data) = 3 /\ Len(trades) >= 1
    /\ table.rows[1].ts > table.rows[2].ts
    /\ \E k \in 1..Len(table.rows) : table.rows[k].close = NaN
    /\ data[3].close # data[2].close

-----------------------------------------------------------------------------
(* StrategyOptimizer.grid_search *)

\* list(itertools.product(*param_values)) zipped with the names lo, hi:
\* the last parameter varies fastest
ParamCombinations(grid) ==
    [k \in 1..(Len(grid.lo) * Len(grid.hi)) |->
        [lo |-> grid.lo[((k - 1) \div Len(grid.hi)) + 1],
         hi |-> grid.hi[((k - 1) % Len(grid.hi)) + 1]]]

\* one instance for the whole sweep, carrying the parameters assigned last
StrategyClassShared(params) ==
    ThresholdStrategy(Last(gs.param_combinations).lo, Last(gs.param_combinations).hi)

\* strategy_class(**params)
StrategyClass(params) == ThresholdStrategy(params.lo, params.hi)

\* a score as a number: the metric's value, +inf for an infinite profit factor
ScoreVal(m) == IF m.kind = "inf" THEN PosInf ELSE m.val

\* _evaluate_params in a worker: the exception raised, or params, score, results
evaluate_params(params, objective, t, initial, comm) ==
    Apply(LAMBDA r :
              IF r.exc # "" THEN [exc |-> r.exc, value |-> <<>>]
              ELSE [exc |-> "",
                    value |-> <<[params |-> params,
                                 score |-> ScoreVal(r.result[1].metrics[objective]),
                                 results |-> r.result[1]]>>],
          run_backtest(t, StrategyClass(params), initial, comm))

PendingFuture == [state |-> "pending", exc |-> "", value |-> <<>>]

\* lines 55-74: enumerate the grid and submit one future per combination
GridSearchSubmit(grid) ==
    /\ gs.pc \in {"idle", "raised"}
    /\ gs.invocation < MaxInvocations
    /\ gs' = [gs EXCEPT !.pc = "collect",
                        !.invocation = @ + 1,
                        !.param_grid = grid,
                        !.param_combinations = ParamCombinations(grid),
                        !.futures = [k \in 1..Len(ParamCombinations(grid)) |-> PendingFuture],
                        !.collected = 0,
                        !.exc = ""]
    /\ UNCHANGED <<opt, engineVars, simVars, auxVars>>

\* a worker process finishes the evaluation of combination k
WorkerFinish(k) ==
    /\ gs.pc = "collect"
    /\ k \in 1..Len(gs.futures)
    /\ gs.futures[k].state = "pending"
    /\ \E e \in {evaluate_params(gs.param_combinations[k], opt.objective_function,
                                 table, initial_capital, commission)} :
          gs' = [gs EXCEPT !.futures[k] =
                    [state |-> "done", exc |-> e.exc, value |-> e.value]]
    /\ UNCHANGED <<opt, engineVars, simVars, auxVars>>

ScoreBeatsOrTies(score, best) == RLe(best, score)

\* result['score'] > self.best_score
ScoreBeats(score, best) == RGt(score, best)

\* a collection loop that catches the exception of a future and goes on
CollectResultSkipsFailure ==
    /\ gs.pc = "collect"
    /\ gs.collected < Len(gs.futures)
    /\ gs.futures[gs.collected + 1].state = "done"
    /\ LET f == gs.futures[gs.collected + 1]
       IN  IF f.exc # ""
           THEN /\ gs' = [gs EXCEPT !.collected = @ + 1]
                /\ opt' = opt
           ELSE LET result == f.value[1]
                    all == Append(opt.results, result)
                IN  /\ opt' = [opt EXCEPT
                                 !.results = all,
                                 !.best_score = IF ScoreBeats(result.score, @)
                                                THEN result.score ELSE @,
                                 !.best_params = IF ScoreBeats(result.score, opt.best_score)
                                                 THEN <<result.params>> ELSE @]
                    /\ gs' = [gs EXCEPT
                                 !.collected = @ + 1,
                                 !.returned = [n \in 1..Len(@) |->
                                                 [@[n] EXCEPT !.all_results = all]]]
    /\ UNCHANGED <<engineVars, simVars, auxVars>>

\* lines 77-84: future.result() of the next future, in submission order; the
\* dictionary returned by earlier calls holds self.results itself
CollectResult ==
    /\ gs.pc = "collect"
    /\ gs.collected < Len(gs.futures)
    /\ gs.futures[gs.collected + 1].state = "done"
    /\ LET f == gs.futures[gs.collected + 1]
       IN  IF f.exc # ""
           THEN /\ gs' = [gs EXCEPT !.pc = "raised", !.exc = f.exc]
                /\ opt' = opt
           ELSE LET result == f.value[1]
                    all == Append(opt.results, result)
                IN  /\ opt' = [opt EXCEPT
                                 !.results = all,
                                 !.best_score = IF ScoreBeats(result.score, @)
                                                THEN result.score ELSE @,
                                 !.best_params = IF ScoreBeats(result.score, opt.best_score)
                                                 THEN <<result.params>> ELSE @]
                    /\ gs' = [gs EXCEPT
                                 !.collected = @ + 1,
                                 !.returned = [n \in 1..Len(@) |->
                                                 [@[n] EXCEPT !.all_results = all]]]
    /\ UNCHANGED <<engineVars, simVars, auxVars>>

\* lines 86-90: return best_params, best_score and self.results
GridSearchReturn ==
    /\ gs.pc = "collect"
    /\ gs.collected = Len(gs.futures)
    /\ gs' = [gs EXCEPT !.pc = "idle",
                        !.returned = Append(@, [invocation |-> gs.invocation,
                                                best_params |-> opt.best_params,
                                                best_score |-> opt.best_score,
                                                all_results |-> opt.results])]
    /\ UNCHANGED <<opt, engineVars, simVars, auxVars>>

OptPrices == {Rat(90), Rat(100), Rat(110)}

\* series that start at 100 and move at every bar, and the empty table
OptTables ==
    {[columns |-> AllColumns, rows |-> [k \in 1..MaxBars |-> [ts |-> k, close |-> c[k]]]] :
        c \in {q \in [1..MaxBars -> OptPrices] :
                  q[1] = Rat(100) /\ \A k \in 2..MaxBars : q[k] # q[k - 1]}}
    \cup {[columns |-> AllColumns, rows |-> <<>>]}

\* the last grid holds a combination (lo 110, hi 100) whose strategy raises
Grids ==
    {[lo |-> <<Rat(90), Rat(100)>>, hi |-> <<Rat(110)>>],
     [lo |-> <<Rat(90), Rat(100)>>, hi |-> <<Rat(100), Rat(110)>>],
     [lo |-> <<Rat(90), Rat(110)>>, hi |-> <<Rat(100)>>]}

Objectives == {"win_rate", "profit_factor", "avg_trade"}

InitOpt ==
    /\ table \in OptTables
    /\ strategy = ThresholdStrategy(Zero, Zero)
    /\ initial_capital = Rat(DefaultInitialCapital)
    /\ commission = <<1, 100>>
    /\ EngineIdle
    /\ \E o \in Objectives : opt = [OptIdle EXCEPT !.objective_function = o]
    /\ gs = GsIdle
    /\ mc = McIdle
    /\ sim = SimIdle
    /\ sr = SrIdle
    /\ pm = PmIdle

NextOpt ==
    \/ \E grid \in Grids : GridSearchSubmit(grid)
    \/ \E k \in 1..Len(gs.futures) : WorkerFinish(k)
    \/ CollectResult
    \/ GridSearchReturn

SpecOpt == InitOpt /\ [][NextOpt]_vars

RECURSIVE MaxScore(_)
MaxScore(rs) ==
    IF Len(rs) = 1 THEN rs[1].score
    ELSE LET m == MaxScore(Tail(rs))
         IN  IF RGt(rs[1].score, m) THEN rs[1].score ELSE m

\* C10: every grid_search invocation that completes, a second one on the same
\* optimizer included, returns all_results with exactly one entry per
\* combination of the grid passed to it (length = product of the candidate-list
\* lengths) and best_score equal to the maximum score over all_results.
C10_GridSearchCompleteness ==
    \A n \in 1..Len(gs.returned) :
        (gs.returned[n].invocation = gs.invocation /\ gs.pc = "idle") =>
            /\ Len(gs.returned[n].all_results)
                  = Len(gs.param_grid.lo) * Len(gs.param_grid.hi)
            /\ gs.returned[n].best_score = MaxScore(gs.returned[n].all_results)

\* what _evaluate_params gives for one combination evaluated alone
Evaluation(params) ==
    evaluate_params(params, opt.objective_function, table, initial_capital, commission)

\* the grid_search call that has just returned, and what it returned
JustReturned(n) ==
    /\ gs.pc = "idle"
    /\ n \in 1..Len(gs.returned)
    /\ gs.returned[n].invocation = gs.invocation

\* C11: whatever order the workers finish in, the k-th entry of the all_results
\* of one grid_search invocation is the evaluation of the k-th combination of
\* the grid's Cartesian-product enumeration, 1:1 and in the same order.
C11_ResultsInGridOrder ==
    \A n \in 1..Len(gs.returned) :
        JustReturned(n) =>
            LET all == gs.returned[n].all_results
                combos == ParamCombinations(gs.param_grid)
            IN  /\ Len(all) = Len(combos)
                /\ \A k \in 1..Len(combos) : <<all[k]>> = Evaluation(combos[k]).value

\* the scores of the grid's combinations, in enumeration order
GridScores(grid) ==
    [k \in 1..Len(ParamCombinations(grid)) |->
        Evaluation(ParamCombinations(grid)[k]).value[1]]

\* the first position of the enumeration whose score is the maximum
FirstMaximum(evals) ==
    CHOOSE k \in 1..Len(evals) :
        /\ evals[k].score = MaxScore(evals)
        /\ \A j \in 1..(k - 1) : evals[j].score # MaxScore(evals)

SeveralMaxima(evals) ==
    \E j, k \in 1..Len(evals) :
        j # k /\ evals[j].score = MaxScore(evals) /\ evals[k].score = MaxScore(evals)

\* C12: when several grid points attain the maximum score of a grid_search,
\* best_params is the parameter set of the first of them in grid enumeration
\* order, whatever order the workers finished in.
C12_FirstMaximumWins ==
    \A n \in 1..Len(gs.returned) :
        JustReturned(n) =>
            LET evals == GridScores(gs.param_grid)
            IN  SeveralMaxima(evals) =>
                    gs.returned[n].best_params = <<evals[FirstMaximum(evals)].params>>

\* C13: if the backtest of a combination raises, grid_search does not catch
\* it: the step that meets the exception leaves the optimizer as it was and
\* hands the worker's exception to the caller, the call that raised does
\* nothing more, and a call returns a result only when no combination raised.
C13_ExceptionAbortsSweep ==
    [][/\ (gs.pc = "collect" /\ gs'.pc = "raised") =>
              /\ gs'.exc # ""
              /\ gs'.exc = Evaluation(gs.param_combinations[gs.collected + 1]).exc
              /\ opt' = opt
              /\ gs'.returned = gs.returned
       /\ (gs.pc = "collect" /\ gs'.pc = "idle") =>
              \A k \in 1..Len(gs.param_combinations) :
                  Evaluation(gs.param_combinations[k]).exc = ""
       /\ (gs.pc = "raised" /\ gs' # gs) => gs'.invocation = gs.invocation + 1]_vars

\* the second combination raised after the first had been recorded, while
\* nothing has been returned for the call
C13_Witness ==
    /\ gs.pc = "raised"
    /\ gs.exc = StrategyError
    /\ gs.collected = 1
    /\ Len(opt.results) = 1
    /\ gs.returned = <<>>

-----------------------------------------------------------------------------
(* Errors of run_backtest *)

\* the run_backtest call has ended, with a result or with an exception
CallEnded == pc \in {"done", "error"}

\* C17: run_backtest for a data window that is empty after preprocessing
\* raises DataUnavailableError, not another exception and not a result.
C17_EmptyWindowIsDataUnavailable ==
    (CallEnded /\ HasRequiredColumns(table) /\ Len(preprocess_data(table)) = 0) =>
        (pc = "error" /\ exc = "DataUnavailableError")

\* C18: run_backtest on data lacking one of the columns open, high, low, close,
\* volume raises DataFormatError before any bar is processed and before any
\* call of the strategy.
C18_MissingColumnIsDataFormatError ==
    (CallEnded /\ ~HasRequiredColumns(table)) =>
        /\ pc = "error"
        /\ exc = "DataFormatError"
        /\ i = 0
        /\ calls = <<>>
        /\ equity_curve = <<>>

-----------------------------------------------------------------------------
(* Successive calls on one engine *)

MaxRuns == 2

\* the caller's next run_backtest call on the same engine, with its arguments
NextCall(t, s) ==
    /\ pc \in {"done", "error"}
    /\ runs < MaxRuns
    /\ table' = t
    /\ strategy' = s
    /\ pc' = "idle"
    /\ exc' = ""
    /\ runs' = runs + 1
    /\ UNCHANGED <<initial_capital, commission, results, data, i, capital, position,
                   trades, equity_curve, calls, recs, returned, returned_args, opt, gs,
                   simVars, auxVars>>

\* a rising two-bar series, the same series with its rows out of order, an
\* empty window, a table without its volume column
CallTables ==
    {[columns |-> AllColumns,
      rows |-> <<[ts |-> 1, close |-> Rat(100)], [ts |-> 2, close |-> Rat(110)]>>],
     [columns |-> AllColumns,
      rows |-> <<[ts |-> 2, close |-> Rat(110)], [ts |-> 1, close |-> Rat(100)]>>],
     [columns |-> AllColumns, rows |-> <<>>],
     [columns |-> AllColumns \ {"volume"}, rows |-> <<>>]}

\* strategies that trade, and strategies that raise at the first or second bar
CallStrategies ==
    {ScriptedStrategy(<<"buy", "sell">>), ScriptedStrategy(<<"hold", "buy">>),
     ScriptedStrategy(<<"buy", "raise">>), ScriptedStrategy(<<"raise", "hold">>)}

CallGrids == {[lo |-> <<Rat(90), Rat(100)>>, hi |-> <<Rat(110)>>]}

InitCalls ==
    /\ table \in CallTables
    /\ strategy \in CallStrategies
    /\ initial_capital = Rat(DefaultInitialCapital)
    /\ commission = <<1, 100>>
    /\ EngineIdle
    /\ opt = OptIdle
    /\ gs = GsIdle
    /\ mc = McIdle
    /\ sim = SimIdle
    /\ sr = SrIdle
    /\ pm = PmIdle

\* one caller: run_backtest calls, and one grid_search call before, between or
\* after them, each call made when the one before it has ended
NextCalls ==
    \/ \E t \in CallTables, s \in CallStrategies :
          gs.pc \in {"idle", "raised"} /\ NextCall(t, s)
    \/ gs.pc \in {"idle", "raised"} /\ StartBacktest
    \/ BarStep
    \/ FinishBacktest
    \/ \E grid \in CallGrids : pc # "loop" /\ gs.invocation = 0 /\ GridSearchSubmit(grid)
    \/ \E k \in 1..Len(gs.futures) : WorkerFinish(k)
    \/ CollectResult
    \/ GridSearchReturn

SpecCalls == InitCalls /\ [][NextCalls]_vars

\* C19: whenever run_backtest fails (format error, empty window, exception of
\* the strategy at any bar) its exception reaches the caller, no step of a call
\* other than its successful end stores or returns a result, so the engine's
\* stored results are those of before the call, and the engine leaves the
\* failed call only through a new call of the caller (no retry).
C19_FailedRunLeavesNoTrace ==
    [][/\ (pc' # "done") => (results' = results /\ returned' = returned)
       /\ (pc # "error" /\ pc' = "error") =>
              /\ exc' # ""
              /\ exc' = run_backtest(table, strategy, initial_capital, commission).exc
       /\ (pc = "error" /\ pc' # "error") => (pc' = "idle" /\ runs' = runs + 1)]_vars

\* the strategy raised at the second bar, after a buy, in a call that follows
\* a successful one
C19_Witness ==
    /\ pc = "error"
    /\ exc = StrategyError
    /\ i = 1
    /\ Len(trades) = 1
    /\ runs = 2
    /\ Len(returned) = 1
    /\ results = <<returned[1]>>

\* C20: after each successful run_backtest the engine holds exactly the result
\* of that run, and no step changes a result that run_backtest has returned or
\* that the optimizer has stored.
C20_ResultReplacedNeverChanged ==
    [][/\ (pc # "done" /\ pc' = "done") =>
              /\ results' = run_backtest(table, strategy, initial_capital, commission).result
              /\ Len(results') = 1
              /\ Len(returned') = Len(returned) + 1
              /\ Last(returned') = results'[1]
       /\ \A n \in 1..Len(returned) :
              n <= Len(returned') /\ returned'[n] = returned[n]
       /\ \A n \in 1..Len(opt.results) :
              n <= Len(opt'.results) /\ opt'.results[n] = opt.results[n]]_vars

\* a second successful run has replaced the stored result by a different one,
\* with a result of the first run returned and results stored by the optimizer
C20_Witness ==
    /\ pc = "done"
    /\ runs = 2
    /\ Len(returned) = 2
    /\ returned[1] # returned[2]
    /\ results = <<returned[2]>>
    /\ Len(opt.results) = 2

-----------------------------------------------------------------------------
(* MonteCarloSimulator.run_simulation *)

MaxSimulations == 2

MaxSimBars == 2

\* np.random.seed(s): the global generator restarts at the head of the stream of s
Seeded(s) == <<[seed |-> s, drawn |-> 0]>>

\* the n-th number of the stream of a seed, as an index into m values: a fixed
\* function of the seed and of the position in the stream
StreamIndex(seed, n, m) == ((seed * (n + 3) + n * n) % m) + 1

\* the index sequences np.random.choice(a, size=m, replace=True) can draw in
\* generator state g: one when the state is known, any when it is not
ChoiceIndices(g, m) ==
    IF g = <<>> THEN [1..m -> 1..m]
    ELSE {[k \in 1..m |-> StreamIndex(g[1].seed, g[1].drawn + k, m)]}

\* the generator after m draws
Advance(g, m) == IF g = <<>> THEN g ELSE <<[g[1] EXCEPT !.drawn = @ + m]>>

\* _generate_random_returns: the returns column resampled at the drawn indices
generate_random_returns(original_returns, idx) ==
    [k \in 1..Len(idx) |-> original_returns[idx[k]]]

RECURSIVE create_simulated_prices(_, _)
\* _create_simulated_prices: the initial price, then one more price per return
create_simulated_prices(initial_price, random_returns) ==
    IF random_returns = <<>> THEN <<initial_price>>
    ELSE LET head == create_simulated_prices(initial_price,
                         SubSeq(random_returns, 1, Len(random_returns) - 1))
             ret == Last(random_returns)
         IN  Append(head, IF ret = NaN \/ Last(head) = NaN THEN NaN
                          ELSE RMul(Last(head), RAdd(One, ret)))

\* run_backtest(strategy, symbol, start_date, end_date, timeframe, data=...):
\* the signature of run_backtest has no parameter named data
RunBacktestWithData(strat, simulated_prices) == [exc |-> "TypeError", result |-> <<>>]

\* lines 186-208 for the drawn indices: data['close'].iloc[0] needs a first
\* bar, the assignment of the close column needs one price per row
Trial(d, strat, idx) ==
    LET random_returns ==
            generate_random_returns([k \in 1..Len(d) |-> d[k].returns], idx)
    IN  IF Len(d) = 0
        THEN [exc |-> "IndexError", random_returns |-> random_returns,
              simulated_prices |-> <<>>, result |-> <<>>]
        ELSE LET simulated_prices == create_simulated_prices(d[1].close, random_returns)
             IN  IF Len(simulated_prices) # Len(d)
                 THEN [exc |-> "ValueError", random_returns |-> random_returns,
                       simulated_prices |-> simulated_prices, result |-> <<>>]
                 ELSE [exc |-> RunBacktestWithData(strat, simulated_prices).exc,
                       random_returns |-> random_returns,
                       simulated_prices |-> simulated_prices,
                       result |-> RunBacktestWithData(strat, simulated_prices).result]

\* what one run_simulation call gave its caller: an exception or the entry
Outcome(e, value) ==
    [invocation |-> sim.invocation, random_seed |-> sim.random_seed,
     n_simulations |-> sim.n_simulations, exc |-> e, value |-> value]

\* lines 172-183: seed the generator, load and preprocess, empty the lists
SimStart(seed, n) ==
    /\ sim.pc \in {"idle", "raised"}
    /\ sim.invocation < MaxInvocations
    /\ LET called == [sim EXCEPT !.invocation = @ + 1,
                                 !.random_seed = seed,
                                 !.n_simulations = n,
                                 !.generator = IF seed # <<>> THEN Seeded(seed[1]) ELSE @,
                                 !.trial = 0,
                                 !.random_returns = <<>>,
                                 !.simulated_prices = <<>>,
                                 !.equity_curves = <<>>,
                                 !.metrics = <<>>]
       IN  IF ~HasRequiredColumns(table)
           THEN sim' = [called EXCEPT
                           !.pc = "raised", !.exc = "ValueError",
                           !.outcomes = Append(@,
                               [invocation |-> called.invocation, random_seed |-> seed,
                                n_simulations |-> n, exc |-> "ValueError",
                                value |-> <<>>])]
           ELSE sim' = [called EXCEPT !.pc = "trials", !.exc = "",
                                      !.data = preprocess_data(table)]
    /\ UNCHANGED <<mc, opt, gs, engineVars, auxVars>>

\* lines 185-211: one trial of the loop
SimTrial ==
    /\ sim.pc = "trials"
    /\ sim.trial < sim.n_simulations
    /\ \E idx \in ChoiceIndices(sim.generator, Len(sim.data)) :
          \E t \in {Trial(sim.data, strategy, idx)} :
              LET drawn == [sim EXCEPT !.generator = Advance(@, Len(sim.data)),
                                       !.random_returns = t.random_returns,
                                       !.simulated_prices = t.simulated_prices]
              IN  IF t.exc # ""
                  THEN sim' = [drawn EXCEPT !.pc = "raised", !.exc = t.exc,
                                            !.outcomes = Append(@, Outcome(t.exc, <<>>))]
                  ELSE sim' = [drawn EXCEPT
                                  !.trial = @ + 1,
                                  !.equity_curves = Append(@, t.result[1].equity_curve),
                                  !.metrics = Append(@, t.result[1].metrics)]
    /\ UNCHANGED <<mc, opt, gs, engineVars, auxVars>>

\* lines 217-226
Statistics(equity_curves, metrics, initial) ==
    LET n == Len(equity_curves)
        final_equities == [k \in 1..n |-> Last(equity_curves[k])]
        Column(m) == [k \in 1..Len(metrics) |-> metrics[k][m]]
    IN  [mean_final_equity   |-> Num(RDiv(RSum(final_equities), Rat(n))),
         std_final_equity    |-> Fn("std", final_equities),
         min_final_equity    |-> Fn("min", final_equities),
         max_final_equity    |-> Fn("max", final_equities),
         probability_of_loss |->
             Num(RDiv(Rat(Cardinality({k \in 1..n : RLt(final_equities[k], initial)})),
                      Rat(n))),
         mean_sharpe_ratio   |-> Fn("mean", Column("sharpe_ratio")),
         mean_max_drawdown   |-> Fn("mean", Column("max_drawdown")),
         mean_win_rate       |-> Fn("mean", Column("win_rate"))]

\* lines 213-238: the statistics, the append to simulation_results, the return;
\* equity_curves[:, -1] of an array without rows raises IndexError
SimAggregate ==
    /\ sim.pc = "trials"
    /\ sim.trial = sim.n_simulations
    /\ IF Len(sim.equity_curves) = 0
       THEN /\ sim' = [sim EXCEPT !.pc = "raised", !.exc = "IndexError",
                                  !.outcomes = Append(@, Outcome("IndexError", <<>>))]
            /\ mc' = mc
       ELSE LET entry == [strategy |-> strategy.name,
                          n_simulations |-> sim.n_simulations,
                          equity_curves |-> sim.equity_curves,
                          metrics |-> sim.metrics,
                          statistics |-> Statistics(sim.equity_curves, sim.metrics,
                                                    initial_capital)]
            IN  /\ mc' = [mc EXCEPT !.simulation_results = Append(@, entry)]
                /\ sim' = [sim EXCEPT !.pc = "idle",
                                      !.outcomes = Append(@, Outcome("", <<entry>>))]
    /\ UNCHANGED <<opt, gs, engineVars, auxVars>>

\* random_seed: None or an integer
Seeds == {<<>>, <<1>>, <<2>>}

SimTables ==
    {t \in CleanTables : Len(t.rows) <= MaxSimBars}
    \cup {[columns |-> AllColumns \ {"volume"}, rows |-> <<>>]}

InitSim ==
    /\ table \in SimTables
    /\ strategy = ScriptedStrategy(<<"buy", "sell">>)
    /\ initial_capital = Rat(DefaultInitialCapital)
    /\ commission = <<1, 100>>
    /\ EngineIdle
    /\ opt = OptIdle
    /\ gs = GsIdle
    /\ mc = McIdle
    /\ sim = SimIdle
    /\ sr = SrIdle
    /\ pm = PmIdle

NextSim ==
    \/ \E seed \in Seeds, n \in 0..MaxSimulations : SimStart(seed, n)
    \/ SimTrial
    \/ SimAggregate

SpecSim == InitSim /\ [][NextSim]_vars

\* a call with n_simulations >= 1 on a non-empty historical series
ValidSimulation(o) ==
    /\ o.n_simulations >= 1
    /\ HasRequiredColumns(table)
    /\ Len(preprocess_data(table)) >= 1

\* C14: run_simulation with n_simulations = n >= 1 on a non-empty historical
\* series completes and returns a SimulationResult with exactly n equity curves
\* and n metrics records, one per backtest of a synthetic series, plus the
\* aggregate statistics.
C14_SimulationCompletes ==
    \A k \in 1..Len(sim.outcomes) :
        LET o == sim.outcomes[k]
        IN  ValidSimulation(o) =>
                /\ o.exc = ""
                /\ Len(o.value[1].equity_curves) = o.n_simulations
                /\ Len(o.value[1].metrics) = o.n_simulations
                /\ "statistics" \in DOMAIN o.value[1]

\* C15: two run_simulation invocations with the same random_seed and identical
\* strategy, data and n_simulations produce identical per-trial equity-curve
\* matrices.
C15_SeededRunsReproduce ==
    \A j, k \in 1..Len(sim.outcomes) :
        LET a == sim.outcomes[j]
            b == sim.outcomes[k]
        IN  (/\ j < k
             /\ a.random_seed # <<>>
             /\ a.random_seed = b.random_seed
             /\ a.n_simulations = b.n_simulations
             /\ ValidSimulation(a)) =>
                /\ a.exc = ""
                /\ b.exc = ""
                /\ a.value[1].equity_curves = b.value[1].equity_curves

\* C16: every invocation of run_simulation appends exactly one entry to
\* simulation_results and returns that entry: after k invocations the history
\* has k entries, in invocation order, each the one returned by its call.
C16_HistoryGrowsByOne ==
    (\A k \in 1..Len(sim.outcomes) : ValidSimulation(sim.outcomes[k])) =>
        /\ Len(mc.simulation_results) = Len(sim.outcomes)
        /\ \A k \in 1..Len(sim.outcomes) :
              sim.outcomes[k].value = <<mc.simulation_results[k]>>

-----------------------------------------------------------------------------
(* The shipped strategies: get_recommendation of MovingAverageStrategy,      *)
(* RSIDivergenceStrategy, KishokaStrategy and BreakoutDetectionStrategy.     *)
(* A window is the frame the caller passes: its columns, its number of bars  *)
(* n (timestamps are the positions 1..n of the sorted index) and the signals *)
(* the strategy's indicators fire on it, oldest first.                       *)

MaxWindowBars == 42

MaxSignals == 2

StrategyKinds == {"moving_average", "rsi_divergence", "kishoka", "breakout_detection"}

\* rsi_divergence.py line 30: window = 5
DivergenceWindow == 5

\* kishoka_strategy.py: swing_length of the rolling swing high and low
SwingLength == 14

\* breakout_detection.py line 16: lookback_period = 20
LookbackPeriod == 20

\* the bars at which each strategy's loop can append a signal
SignalPositions(kind, n) ==
    CASE kind = "moving_average" -> {k \in 2..n : k >= AtrPeriod}
      [] kind = "rsi_divergence" -> (DivergenceWindow + 1)..(n - DivergenceWindow)
      [] kind = "kishoka" -> {k \in 2..n : k >= SwingLength}
      [] kind = "breakout_detection" ->
            IF n >= 2 * LookbackPeriod + 1 THEN LookbackPeriod..n ELSE {}

\* the confidence each strategy attaches to the signals it appends
SignalConfidence(kind) ==
    CASE kind = "moving_average" -> <<4, 5>>
      [] kind = "rsi_divergence" -> <<7, 10>>
      [] kind = "kishoka" -> <<4, 5>>
      [] kind = "breakout_detection" -> <<9, 10>>

\* rsi_divergence.py lines 95-112; generate_signals calls analyze, which raises
\* ValueError("Invalid data format") (lines 63-64)
RSIDivergence_get_recommendation(w) ==
    IF ~validate_data(w) THEN Raised("ValueError")
    ELSE IF w.signals = <<>> THEN Returned(HoldRecommendation)
         ELSE Returned(SignalRecommendation(Last(w.signals)))

\* kishoka_strategy.py lines 106-146; generate_signals (lines 76-77) returns []
\* for a frame that fails validate_data
Kishoka_get_recommendation(w) ==
    LET signals == IF validate_data(w) THEN w.signals ELSE <<>>
    IN  IF signals = <<>> THEN Returned(HoldRecommendation)
        ELSE IF Last(signals).timestamp >= w.n - 2
             THEN Returned(SignalRecommendation(Last(signals)))
             ELSE Returned(HoldRecommendation)

\* breakout_detection.py lines 123-141; generate_signals calls analyze, which
\* raises ValueError("Invalid data format") (lines 90-91)
Breakout_get_recommendation(w) ==
    IF ~validate_data(w) THEN Raised("ValueError")
    ELSE IF w.signals = <<>> THEN Returned(HoldRecommendation)
         ELSE Returned(SignalRecommendation(Last(w.signals)))

StrategyRecommendation(kind, w) ==
    CASE kind = "moving_average" -> MovingAverage_get_recommendation(w)
      [] kind = "rsi_divergence" -> RSIDivergence_get_recommendation(w)
      [] kind = "kishoka" -> Kishoka_get_recommendation(w)
      [] kind = "breakout_detection" -> Breakout_get_recommendation(w)

\* the caller's strategy.get_recommendation(window)
GetRecommendation ==
    /\ sr.pc = "idle"
    /\ \E out \in {StrategyRecommendation(sr.kind, sr.window)} :
          sr' = [sr EXCEPT !.pc = IF out.exc = "" THEN "returned" ELSE "raised",
                           !.ret = out.ret, !.exc = out.exc]
    /\ UNCHANGED <<opt, gs, engineVars, simVars, pm>>

\* signal lists of at most MaxSignals entries at strictly later bars
RECURSIVE SignalLists(_, _, _)
SignalLists(kind, positions, len) ==
    IF len = 0 THEN {<<>>}
    ELSE LET shorter == SignalLists(kind, positions, len - 1)
         IN  shorter \cup
             {Append(sigs, Signal(ts, type, SignalConfidence(kind))) :
                 sigs \in {x \in shorter : Len(x) = len - 1},
                 ts \in positions, type \in {"buy", "sell"}}

Increasing(sigs) == \A k \in 1..(Len(sigs) - 1) : sigs[k].timestamp < sigs[k + 1].timestamp

WindowBars == {0, AtrPeriod - 1, MaxWindowBars}

WindowColumns == {required_columns, required_columns \ {"volume"}}

Windows(kind) ==
    {[columns |-> c, n |-> n, signals |-> sigs] :
        c \in WindowColumns,
        n \in WindowBars,
        sigs \in {x \in SignalLists(kind, SignalPositions(kind, MaxWindowBars), MaxSignals) :
                     Increasing(x)}}

\* the indicators fire only at bars of the window
WellFormed(kind, w) ==
    \A k \in 1..Len(w.signals) : w.signals[k].timestamp \in SignalPositions(kind, w.n)

InitStrategies ==
    /\ table \in {t \in CleanTables : Len(t.rows) = 0}
    /\ strategy = ScriptedStrategy(<<>>)
    /\ initial_capital = Rat(DefaultInitialCapital)
    /\ commission = Zero
    /\ EngineIdle
    /\ opt = OptIdle
    /\ gs = GsIdle
    /\ mc = McIdle
    /\ sim = SimIdle
    /\ pm = PmIdle
    /\ \E kind \in StrategyKinds :
       \E w \in {x \in Windows(kind) : WellFormed(kind, x)} :
          sr = [SrIdle EXCEPT !.kind = kind, !.window = w]

NextStrategies == GetRecommendation

SpecStrategies == InitStrategies /\ [][NextStrategies]_vars

\* fewer bars than the strategy's shortest indicator needs
MinimumLookback(kind) ==
    CASE kind = "moving_average" -> AtrPeriod
      [] kind = "rsi_divergence" -> 2 * DivergenceWindow + 1
      [] kind = "kishoka" -> SwingLength
      [] kind = "breakout_detection" -> 2 * LookbackPeriod + 1

FailClosedCase == ~validate_data(sr.window) \/ sr.window.n < MinimumLookback(sr.kind)

\* C21: get_recommendation never raises, and on a frame with a missing OHLCV
\* column or with fewer bars than the minimum lookback it returns hold with
\* confidence 0
C21_FailsClosed ==
    sr.pc # "idle" =>
        /\ sr.pc = "returned"
        /\ FailClosedCase => sr.ret[1] = [action |-> "hold", confidence |-> Zero]

\* the number of last bars in which a signal still counts as recent
RecencyWindow(kind) == IF kind = "moving_average" THEN 2 ELSE 3

\* C22: a buy or sell is recommended only when the latest signal lies within
\* the strategy's recency window of the last bars
C22_OnlyRecentSignalsTrade ==
    (sr.pc = "returned" /\ sr.ret[1].action \in {"buy", "sell"}) =>
        /\ sr.window.signals # <<>>
        /\ Last(sr.window.signals).timestamp > sr.window.n - RecencyWindow(sr.kind)

-----------------------------------------------------------------------------
(* Backtests of the moving-average crossover strategy *)

\* the number of bars of the constant-price series
ConstantBars == 50

ConstantTable(price) ==
    [columns |-> AllColumns, rows |-> [k \in 1..ConstantBars |-> [ts |-> k, close |-> price]]]

\* flat for thirteen bars, two bars higher, three bars lower
TrendCloses ==
    [k \in 1..18 |-> IF k <= 13 THEN Rat(100) ELSE IF k <= 15 THEN Rat(110) ELSE Rat(90)]

TrendTable ==
    [columns |-> AllColumns, rows |-> [k \in 1..18 |-> [ts |-> k, close |-> TrendCloses[k]]]]

MaTables == {ConstantTable(p) : p \in Prices} \cup {TrendTable}

MaStrategies == {MovingAverageStrategy(20, 50), MovingAverageStrategy(2, 3)}

InitMa ==
    /\ table \in MaTables
    /\ strategy \in MaStrategies
    /\ initial_capital = Rat(DefaultInitialCapital)
    /\ commission \in Commissions
    /\ EngineIdle
    /\ opt = OptIdle
    /\ gs = GsIdle
    /\ mc = McIdle
    /\ sim = SimIdle
    /\ sr = SrIdle
    /\ pm = PmIdle

NextMa == StartBacktest \/ BarStep \/ FinishBacktest

SpecMa == InitMa /\ [][NextMa]_vars

ConstantSeries(d) == \A k \in 1..Len(d) : d[k].close = d[1].close

AllHold == \A k \in 1..Len(recs) : recs[k] = "hold"

\* C23: on a constant-price series the moving-average strategy recommends hold
\* at every bar, and in any run whose recommendations are all hold the trade
\* list stays empty and every equity value equals initial_capital
C23_HoldRunsAreFlat ==
    pc \in {"loop", "done"} =>
        /\ (strategy.name = "moving_average" /\ ConstantSeries(data)) => AllHold
        /\ AllHold =>
              /\ trades = <<>>
              /\ \A k \in 1..Len(equity_curve) : equity_curve[k] = initial_capital
              /\ pc = "done" => /\ results[1].trades = <<>>
                                /\ \A k \in 1..Len(results[1].equity_curve) :
                                      results[1].equity_curve[k] = initial_capital

C23_Witness ==
    /\ pc = "done"
    /\ strategy = MovingAverageStrategy(20, 50)
    /\ ConstantSeries(data)
    /\ Len(recs) = ConstantBars
    /\ Len(results[1].equity_curve) = ConstantBars
    /\ AllHold

-----------------------------------------------------------------------------
(* PositionManager: open_position, close_position, update_position *)

MaxPmCalls == 3

\* config.py lines 30-31
STOP_LOSS_PIPS == 50

TAKE_PROFIT_PIPS == 100

\* 0.0001 if "JPY" not in pair else 0.01
pip_value(pair) == IF pair = "USD/JPY" THEN <<1, 100>> ELSE <<1, 10000>>

\* position_manager.py lines 44-70; stop_loss and take_profit are <<>> for None
open_position(m, pair, direction, entry_price, size, stop_loss, take_profit) ==
    LET sl == IF stop_loss = <<>>
              THEN IF direction = "buy"
                   THEN RSub(entry_price, RMul(Rat(STOP_LOSS_PIPS), pip_value(pair)))
                   ELSE RAdd(entry_price, RMul(Rat(STOP_LOSS_PIPS), pip_value(pair)))
              ELSE stop_loss[1]
        tp == IF take_profit = <<>>
              THEN IF direction = "buy"
                   THEN RAdd(entry_price, RMul(Rat(TAKE_PROFIT_PIPS), pip_value(pair)))
                   ELSE RSub(entry_price, RMul(Rat(TAKE_PROFIT_PIPS), pip_value(pair)))
              ELSE take_profit[1]
        pos == [pair |-> pair, direction |-> direction, entry_price |-> entry_price,
                     size |-> size, stop_loss |-> sl, take_profit |-> tp,
                     entry_time |-> m.clock + 1, unrealized_pl |-> Zero]
    IN  [m EXCEPT !.positions[pair] = <<pos>>,
                  !.clock = @ + 1,
                  !.opened = Append(@, pos.entry_time),
                  !.ret = <<pos>>]

\* lines 87 and 138: the move in pips in the position's favour
Pips(pos, price) ==
    IF pos.direction = "buy"
    THEN RDiv(RSub(price, pos.entry_price), pip_value(pos.pair))
    ELSE RDiv(RSub(pos.entry_price, price), pip_value(pos.pair))

DailyPlReplaced(daily_pl, pl_amount) == pl_amount

\* line 103: self.daily_pl += pl_amount
DailyPl(daily_pl, pl_amount) == RAdd(daily_pl, pl_amount)

\* lines 72-115; exit_price is <<>> for None
close_position(m, pair, exit_price, reason) ==
    IF m.positions[pair] = <<>> THEN [m EXCEPT !.ret = <<>>]
    ELSE LET pos == m.positions[pair][1]
             price == IF exit_price = <<>> THEN pos.entry_price ELSE exit_price[1]
             pips == Pips(pos, price)
             pl_amount == RMul(pips, pos.size)
             trade_record ==
                 [pair |-> pos.pair, direction |-> pos.direction,
                  entry_price |-> pos.entry_price, size |-> pos.size,
                  stop_loss |-> pos.stop_loss, take_profit |-> pos.take_profit,
                  entry_time |-> pos.entry_time,
                  unrealized_pl |-> pos.unrealized_pl,
                  exit_price |-> price, exit_time |-> m.clock + 1, pips |-> pips,
                  pl_amount |-> pl_amount, reason |-> reason]
         IN  [m EXCEPT !.history = Append(@, trade_record),
                       !.daily_pl = DailyPl(@, pl_amount),
                       !.positions[pair] = <<>>,
                       !.clock = @ + 1,
                       !.ret = <<trade_record>>]

StopLossHitNever(pos, price) == FALSE

\* lines 125-126 and 131: the price has reached the stop
StopLossHit(pos, price) ==
    IF pos.direction = "buy" THEN RLe(price, pos.stop_loss)
    ELSE RLe(pos.stop_loss, price)

\* lines 128 and 133: the price has reached the target
TakeProfitHit(pos, price) ==
    IF pos.direction = "buy" THEN RLe(pos.take_profit, price)
    ELSE RLe(price, pos.take_profit)

\* lines 117-142
update_position(m, pair, current_price) ==
    IF m.positions[pair] = <<>> THEN [m EXCEPT !.ret = <<>>]
    ELSE LET pos == m.positions[pair][1]
         IN  IF StopLossHit(pos, current_price)
             THEN close_position(m, pair, <<current_price>>, "stop_loss")
             ELSE IF TakeProfitHit(pos, current_price)
             THEN close_position(m, pair, <<current_price>>, "take_profit")
             ELSE LET updated == [pos EXCEPT !.unrealized_pl =
                                     RMul(Pips(pos, current_price), pos.size)]
                  IN  [m EXCEPT !.positions[pair] = <<updated>>, !.ret = <<updated>>]

Call(op, pair, price) == [op |-> op, pair |-> pair, price |-> price]

Called(m, op, pair, price) == [m EXCEPT !.n = @ + 1, !.call = <<Call(op, pair, price)>>]

Directions == {"buy", "sell"}

Sizes == {Rat(1000)}

EntryPrice(pair) == IF pair = "USD/JPY" THEN Rat(150) ELSE <<11, 10>>

\* the price a number of pips above the pair's entry price
PriceAt(pair, pips) == RAdd(EntryPrice(pair), RMul(Rat(pips), pip_value(pair)))

PipMoves == {-50, 0, 20, 100}

\* stops given by the caller: twenty pips either side of the entry
TightStop == 20

OpenPosition ==
    /\ pm.n < MaxPmCalls
    /\ \E pair \in Pairs, direction \in Directions, size \in Sizes, explicit \in BOOLEAN :
          LET side == IF direction = "buy" THEN 1 ELSE -1
              stop_loss == IF explicit THEN <<PriceAt(pair, -side * TightStop)>> ELSE <<>>
              take_profit == IF explicit THEN <<PriceAt(pair, side * TightStop)>> ELSE <<>>
          IN  pm' = Called(open_position(pm, pair, direction, EntryPrice(pair), size,
                                         stop_loss, take_profit),
                           "open_position", pair, <<EntryPrice(pair)>>)
    /\ UNCHANGED <<opt, gs, engineVars, simVars, sr>>

ClosePosition ==
    /\ pm.n < MaxPmCalls
    /\ \E pair \in Pairs :
       \E exit_price \in {<<>>} \cup {<<PriceAt(pair, k)>> : k \in PipMoves} :
          pm' = Called(close_position(pm, pair, exit_price, "manual"),
                       "close_position", pair, exit_price)
    /\ UNCHANGED <<opt, gs, engineVars, simVars, sr>>

UpdatePosition ==
    /\ pm.n < MaxPmCalls
    /\ \E pair \in Pairs, k \in PipMoves :
          pm' = Called(update_position(pm, pair, PriceAt(pair, k)),
                       "update_position", pair, <<PriceAt(pair, k)>>)
    /\ UNCHANGED <<opt, gs, engineVars, simVars, sr>>

\* __init__ lines 12-24 with a positions.json that holds one open position
PmLoaded ==
    [PmIdle EXCEPT
        !.positions["EUR/USD"] =
            <<[pair |-> "EUR/USD", direction |-> "buy", entry_price |-> EntryPrice("EUR/USD"),
               size |-> Rat(1000), stop_loss |-> PriceAt("EUR/USD", -STOP_LOSS_PIPS),
               take_profit |-> PriceAt("EUR/USD", TAKE_PROFIT_PIPS),
               entry_time |-> 0, unrealized_pl |-> Zero]>>,
        !.opened = <<0>>]

InitPm ==
    /\ table \in {t \in CleanTables : Len(t.rows) = 0}
    /\ strategy = ScriptedStrategy(<<>>)
    /\ initial_capital = Rat(DefaultInitialCapital)
    /\ commission = Zero
    /\ EngineIdle
    /\ opt = OptIdle
    /\ gs = GsIdle
    /\ mc = McIdle
    /\ sim = SimIdle
    /\ sr = SrIdle
    /\ pm \in {PmIdle, PmLoaded}

NextPm == OpenPosition \/ ClosePosition \/ UpdatePosition

SpecPm == InitPm /\ [][NextPm]_vars

\* the step is a call of op
PmCall(op) == pm'.n = pm.n + 1 /\ pm'.call[1].op = op

\* C24: close_position on a pair with an open position removes the pair,
\* appends exactly one trade record, adds its pl_amount to daily_pl and returns
\* the record; on a pair with no open position it returns None and leaves
\* positions, history and daily_pl unchanged
C24_ClosePosition ==
    [][PmCall("close_position") =>
        LET pair == pm'.call[1].pair
        IN  IF pm.positions[pair] # <<>>
            THEN /\ pm'.positions = [pm.positions EXCEPT ![pair] = <<>>]
                 /\ Len(pm'.history) = Len(pm.history) + 1
                 /\ SubSeq(pm'.history, 1, Len(pm.history)) = pm.history
                 /\ pm'.ret = <<Last(pm'.history)>>
                 /\ pm'.ret[1].pair = pair
                 /\ pm'.ret[1].entry_time = pm.positions[pair][1].entry_time
                 /\ pm'.ret[1].exit_price =
                        IF pm'.call[1].price = <<>> THEN pm.positions[pair][1].entry_price
                        ELSE pm'.call[1].price[1]
                 /\ pm'.daily_pl = RAdd(pm.daily_pl, pm'.ret[1].pl_amount)
            ELSE /\ pm'.ret = <<>>
                 /\ pm'.positions = pm.positions
                 /\ pm'.history = pm.history
                 /\ pm'.daily_pl = pm.daily_pl]_vars

\* a second close with a gain after a first close with a loss
C24_Witness ==
    /\ pm.call # <<>>
    /\ pm.call[1].op = "close_position"
    /\ Len(pm.history) = 2
    /\ RLt(pm.history[1].pl_amount, Zero)
    /\ RGt(pm.history[2].pl_amount, Zero)
    /\ pm.daily_pl = RAdd(pm.history[1].pl_amount, pm.history[2].pl_amount)

\* the prices strictly between the stop and the target
BetweenStops(pos, price) ==
    IF pos.direction = "buy"
    THEN RLt(pos.stop_loss, price) /\ RLt(price, pos.take_profit)
    ELSE RLt(pos.take_profit, price) /\ RLt(price, pos.stop_loss)

\* the price has moved in the position's favour
Favourable(pos, price) ==
    IF pos.direction = "buy" THEN RGt(price, pos.entry_price) ELSE RLt(price, pos.entry_price)

\* the step closed the pair's position at price through close_position
ClosedWith(pair, price, reason) ==
    /\ pm'.positions = [pm.positions EXCEPT ![pair] = <<>>]
    /\ pm'.history = close_position(pm, pair, <<price>>, reason).history
    /\ Last(pm'.history).reason = reason
    /\ Last(pm'.history).exit_price = price
    /\ pm'.daily_pl = RAdd(pm.daily_pl, Last(pm'.history).pl_amount)
    /\ pm'.ret = <<Last(pm'.history)>>

\* C25: update_position on an open position with the price strictly between
\* stop and target keeps it open and sets unrealized_pl with the sign of the
\* move in the position's favour (price - entry_price for a buy); a buy at or
\* below its stop_loss, or a sell at or above it, is closed with reason
\* stop_loss, and a buy at or above its take_profit, or a sell at or below it,
\* with reason take_profit
C25_UpdatePosition ==
    [][(PmCall("update_position") /\ pm.positions[pm'.call[1].pair] # <<>>) =>
        LET pair == pm'.call[1].pair
            price == pm'.call[1].price[1]
            pos == pm.positions[pair][1]
        IN  /\ BetweenStops(pos, price) =>
                 /\ pm'.positions[pair] # <<>>
                 /\ pm'.positions[pair][1] =
                        [pos EXCEPT !.unrealized_pl = pm'.positions[pair][1].unrealized_pl]
                 /\ pm'.history = pm.history
                 /\ pm'.daily_pl = pm.daily_pl
                 /\ Favourable(pos, price) => RGt(pm'.positions[pair][1].unrealized_pl, Zero)
                 /\ price = pos.entry_price => pm'.positions[pair][1].unrealized_pl = Zero
                 /\ (~Favourable(pos, price) /\ price # pos.entry_price)
                        => RLt(pm'.positions[pair][1].unrealized_pl, Zero)
            /\ (pos.direction = "buy" /\ RLe(price, pos.stop_loss))
                  => ClosedWith(pair, price, "stop_loss")
            /\ (pos.direction = "buy" /\ RLe(pos.take_profit, price))
                  => ClosedWith(pair, price, "take_profit")
            /\ (pos.direction = "sell" /\ RLe(pos.stop_loss, price))
                  => ClosedWith(pair, price, "stop_loss")
            /\ (pos.direction = "sell" /\ RLe(price, pos.take_profit))
                  => ClosedWith(pair, price, "take_profit")]_vars

\* one position kept open with a gain, another closed at its target
C25_Witness ==
    /\ pm.call # <<>>
    /\ pm.call[1].op = "update_position"
    /\ pm.history # <<>>
    /\ Last(pm.history).reason = "take_profit"
    /\ pm.ret = <<Last(pm.history)>>
    /\ \E pair \in Pairs : /\ pm.positions[pair] # <<>>
                           /\ RGt(pm.positions[pair][1].unrealized_pl, Zero)

\* C30: every position that was stored in positions is still there or has a
\* trade record in history, at most one position is open per pair, and daily_pl
\* is the sum of pl_amount over the trade records
C30_NoPositionLost ==
    /\ \A pair \in Pairs : Len(pm.positions[pair]) <= 1
    /\ \A k \in 1..Len(pm.opened) :
          \/ \E pair \in Pairs : /\ pm.positions[pair] # <<>>
                                 /\ pm.positions[pair][1].entry_time = pm.opened[k]
          \/ \E j \in 1..Len(pm.history) : pm.history[j].entry_time = pm.opened[k]
    /\ pm.daily_pl = RSum([j \in 1..Len(pm.history) |-> pm.history[j].pl_amount])

-----------------------------------------------------------------------------
(* The Monte Carlo price path *)

\* prices[t] * (1 + ret), NaN when either is missing
NextPrice(price, ret) ==
    IF ret = NaN \/ price = NaN THEN NaN ELSE RMul(price, RAdd(One, ret))

\* C26: the resampled returns are as many as the historical bars, the synthetic
\* path starts at the real first close, each later price is the one before it
\* times (1 + return), and the path has exactly one price per bar
C26_OnePricePerBar ==
    sim.simulated_prices # <<>> =>
        /\ Len(sim.random_returns) = Len(sim.data)
        /\ sim.simulated_prices[1] = sim.data[1].close
        /\ \A t \in 2..Len(sim.simulated_prices) :
              sim.simulated_prices[t] =
                  NextPrice(sim.simulated_prices[t - 1], sim.random_returns[t - 1])
        /\ Len(sim.simulated_prices) = Len(sim.data)

-----------------------------------------------------------------------------
(* Isolation of the grid evaluations *)

\* a sequential backtest of one grid point alone, with a strategy built for it
IsolatedBacktest(params) ==
    run_backtest(table, ThresholdStrategy(params.lo, params.hi), initial_capital, commission)

\* the (params, score, results) entry agrees with the isolated backtest
AgreesWithIsolated(entry) ==
    \E r \in {IsolatedBacktest(entry.params)} :
        /\ r.exc = ""
        /\ entry.results = r.result[1]
        /\ entry.score = ScoreVal(r.result[1].metrics[opt.objective_function])

-----------------------------------------------------------------------------
(* Repeatability of run_backtest *)

\* C28: two run_backtest calls on the same engine with the same arguments and
\* the same historical table return equal results, and no step of a run changes
\* the cached table, the strategy or the engine's settings that a later run reads
C28_RunsAreRepeatable ==
    [][/\ runs' = runs =>
              /\ table' = table
              /\ strategy' = strategy
              /\ initial_capital' = initial_capital
              /\ commission' = commission
       /\ \A j \in 1..Len(returned_args'), k \in 1..Len(returned_args') :
              returned_args'[j] = returned_args'[k] => returned'[j] = returned'[k]]_vars

\* the same run made twice on a table that preprocessing has to sort, with
\* trades, and a grid search in between
C28_Witness ==
    /\ pc = "done"
    /\ Len(returned) = 2
    /\ returned_args[1] = returned_args[2]
    /\ returned[1] = returned[2]
    /\ returned[1].trades # <<>>
    /\ table.rows # <<>>
    /\ table.rows[1].ts > table.rows[2].ts
    /\ opt.results # <<>>

-----------------------------------------------------------------------------
(* Position accounting of the bar loop *)

\* C29: the trade list alternates buy, sell, buy, ... starting with a buy, with
\* at most one trade per bar; position is never negative and is positive
\* exactly when the latest trade is a buy; a run with two or more trades has a
\* sell among them
C29_LongOnlyAccounting ==
    pc \in {"loop", "done"} =>
        /\ \A k \in 1..Len(trades) :
              trades[k].type = IF k % 2 = 1 THEN "buy" ELSE "sell"
        /\ \A k \in 1..(Len(trades) - 1) : trades[k].timestamp < trades[k + 1].timestamp
        /\ Len(trades) <= i
        /\ ~RLt(position, Zero)
        /\ RGt(position, Zero) <=> (trades # <<>> /\ Last(trades).type = "buy")
        /\ Len(trades) >= 2 => \E k \in 1..Len(trades) : trades[k].type = "sell"

====
